---- MODULE Spec2Model ----
(***************************************************************************)
(* secure_mail/backends.py: the encrypting and the signing send_messages   *)
(* wrappers around a Django mail transport.  Messages are objects on a     *)
(* heap (Python references); the GnuPG engine, the failure handlers and    *)
(* the transport are the environment and answer nondeterministically.     *)
(***************************************************************************)
EXTENDS Integers, Sequences, FiniteSets, TLC

\* Bounds of the explored inputs.
MaxBatch == 2
MaxTo == 3
MaxAlts == 1
MaxAtts == 1

\* ------------------------------------------------------------------ values

\* Python's None: a missing filename, a missing return value.
None == <<>>

\* A str is its cleartext and the stack of GnuPG operations applied to it,
\* innermost first; the empty str is Text("").
Text(plain) == [plain |-> plain, layers |-> <<>>]
EmptyText == Text("")

GPG_ENCRYPTED == "application/gpg-encrypted"
SIGNATURE_CREATED == "signature created"
SIGNING_KEY_FINGERPRINT == "sign:0xFINGERPRINT"

\* smart_text(gpg.encrypt(text, addr)) when GnuPG produced output.
Ciphertext(text, addr) == [plain |-> text.plain, layers |-> Append(text.layers, addr)]
\* smart_text(gpg.sign(text, default_key=SIGNING_KEY_FINGERPRINT)).
Signature(text) ==
    [plain |-> text.plain, layers |-> Append(text.layers, SIGNING_KEY_FINGERPRINT)]

\* The Address table: the addresses with a key, each with its use_asc flag.
Address == [a \in {"b@x.com", "c@x.com"} |-> (a = "b@x.com")]
Keyless == {"a@x.com", "d@x.com"}
Recipients == Keyless \cup DOMAIN Address

Range(s) == {s[n] : n \in DOMAIN s}
SeqsUpTo(S, n) == UNION {[1..m -> S] : m \in 0..n}
Injective(s) == \A m, n \in DOMAIN s : s[m] = s[n] => m = n

\* ------------------------------------------------------------------ inputs

\* msg.to: one to MaxTo distinct recipients.
ToLists == {s \in SeqsUpTo(Recipients, MaxTo) : s # <<>> /\ Injective(s)}
Bodies == {EmptyText, Text("hello")}
\* (content, mimetype) pairs; the second is already encrypted.
AltItems ==
    { <<Text("<p>hello</p>"), "text/html">>,
      <<Ciphertext(Text("<p>old</p>"), "z@x.com"), GPG_ENCRYPTED>> }
\* (filename, content, mimetype) triples; the third is already encrypted.
AttItems ==
    { <<(<<"report.pdf">>), Text("%PDF"), "application/pdf">>,
      <<None, Text("%PDF"), "application/pdf">>,
      <<(<<"old.pdf", ".asc">>), Ciphertext(Text("%OLD"), "z@x.com"), GPG_ENCRYPTED>> }

Message(to, body, alts, atts, flag) ==
    [to |-> to, body |-> body, alternatives |-> alts, attachments |-> atts,
     do_not_encrypt_this_message |-> flag]

Messages ==
    { Message(to, body, alts, atts, flag) :
        to \in ToLists, body \in Bodies, alts \in SeqsUpTo(AltItems, MaxAlts),
        atts \in SeqsUpTo(AttItems, MaxAtts), flag \in BOOLEAN }

\* The messages that longer batches are made of.
PlainMessages ==
    { Message(to, Text("hello"), <<CHOOSE a \in AltItems : a[2] # GPG_ENCRYPTED>>, <<>>, flag) :
        to \in {<<"a@x.com">>, <<"b@x.com">>, <<"a@x.com", "c@x.com">>}, flag \in BOOLEAN }

\* The batches handed to send_messages: every single message, and the
\* batches of 2..MaxBatch plain messages.
Batches ==
    {<<m>> : m \in Messages} \cup UNION {[1..n -> PlainMessages] : n \in 2..MaxBatch}

\* ------------------------------------------------------------------- state

VARIABLES
    backend,                \* which mixin wraps the transport
    USE_GNUPG,              \* the setting that gates both wrappers
    email_messages,         \* the caller's batch: references into the heap
    heap,                   \* the message objects, by reference
    orig,                   \* the caller's messages as they were handed in
    origin,                 \* per object, the index of the input it was made from
    pc,                     \* where the call stands
    i,                      \* position of the "for msg" loops
    key_addrs,              \* the (address, use_asc) items of the current message
    k,                      \* position of the "for address, use_asc" loop
    new_msg,                \* the copy addressed to the recipients with keys
    alternatives,           \* the list being built at lines 142-155
    attachments,            \* the list being built at lines 161-164
    j,                      \* position of the inner loops
    unencrypted_messages,
    encrypted_messages,
    to_send,                \* the batch send_messages passes on
    calls,                  \* every gpg.encrypt call so far
    hooks,                  \* every failure handler call so far
    error,                  \* the exception that ended the call
    transport_called,       \* the underlying send_messages was called
    handed,                 \* with this batch
    transport_ret,          \* and returned this
    result                  \* what the caller of send_messages got back

vars ==
    <<backend, USE_GNUPG, email_messages, heap, orig, origin, pc, i, key_addrs, k,
      new_msg, alternatives, attachments, j, unencrypted_messages,
      encrypted_messages, to_send, calls, hooks, error, transport_called, handed,
      transport_ret, result>>

Backends == {"encrypting", "signing"}
NoError == [type |-> "", addr |-> "", status |-> "", via |-> ""]

\* ------------------------------------------------------------- environment

\* What gpg.encrypt(text, addr) may answer: output, nothing at all, a failure.
GpgEncryptResults(text, addr) ==
    { [ok |-> TRUE, data |-> Ciphertext(text, addr), status |-> "encryption ok"],
      [ok |-> TRUE, data |-> EmptyText, status |-> ""],
      [ok |-> FALSE, data |-> EmptyText, status |-> "invalid recipient"] }

\* What gpg.sign(text) may report as its status.
GpgSignStatuses == {SIGNATURE_CREATED, "key expired"}

\* A failure handler returns or raises the error it was given.
HookOutcomes == {"return", "raise"}

\* The underlying send_messages returns a number of sent messages, or raises.
TransportOutcomes(batch) ==
    {[raises |-> FALSE, sent |-> n] : n \in 0..Len(batch)}
        \cup {[raises |-> TRUE, sent |-> 0]}

\* How a gpg.encrypt answer reads: ciphertext, nothing for the empty text,
\* or a failure (not ok, or nothing for a text that is not empty).
Outcome(text, res) ==
    IF ~res.ok \/ (res.data = EmptyText /\ text # EmptyText) THEN "failed"
    ELSE IF res.data = EmptyText THEN "blank"
    ELSE "cipher"

\* --------------------------------------------------------------- functions

\* copy_message with the bug of handing back msg itself instead of a copy.
copy_message_same_object(h, msg) == <<h, msg>>

\* copy_message: a new object holding msg's fields; the flag
\* do_not_encrypt_this_message is not among the copied fields.
copy_message(h, msg) ==
    <<Append(h, [h[msg] EXCEPT !.do_not_encrypt_this_message = FALSE]), Len(h) + 1>>

\* encrypt with the bug of testing encryption_result.ok alone.
encrypt_ok_only(text, addr, res) ==
    IF ~res.ok
    THEN [raised |-> TRUE, value |-> EmptyText,
          error |-> [type |-> "EncryptionFailedError", addr |-> addr,
                     status |-> res.status, via |-> "encrypt"]]
    ELSE [raised |-> FALSE, value |-> res.data, error |-> NoError]

\* encrypt(text, addr), given gpg's answer.
encrypt(text, addr, res) ==
    IF ~res.ok \/ (res.data = EmptyText /\ text # EmptyText)
    THEN [raised |-> TRUE, value |-> EmptyText,
          error |-> [type |-> "EncryptionFailedError", addr |-> addr,
                     status |-> res.status, via |-> "encrypt"]]
    ELSE [raised |-> FALSE, value |-> res.data, error |-> NoError]

\* sign(text), given gpg's status: line 55 names addr, which nothing defines.
sign(text, status) ==
    IF status # SIGNATURE_CREATED
    THEN [raised |-> TRUE, value |-> text,
          error |-> [type |-> "NameError", addr |-> "", status |-> "", via |-> "sign"]]
    ELSE [raised |-> FALSE, value |-> Signature(text), error |-> NoError]

\* encrypt_attachment with the bug of lacking the test of lines 75-76.
encrypt_attachment_no_skip(address, attachment, use_asc, res, outcome) ==
    LET filename == attachment[1]
        r == encrypt(attachment[2], address, res)
    IN  IF ~r.raised
        THEN [raised |-> FALSE,
              value |-> <<IF use_asc /\ filename # None
                          THEN Append(filename, ".asc") ELSE filename,
                          r.value, GPG_ENCRYPTED>>,
              error |-> NoError, called |-> TRUE, hooked |-> FALSE]
        ELSE IF outcome = "raise"
        THEN [raised |-> TRUE, value |-> attachment,
              error |-> [r.error EXCEPT !.via = "handle_failed_attachment_encryption"],
              called |-> TRUE, hooked |-> TRUE]
        ELSE [raised |-> TRUE, value |-> attachment,
              error |-> [type |-> "UnboundLocalError", addr |-> "", status |-> "",
                         via |-> "encrypt_attachment"],
              called |-> TRUE, hooked |-> TRUE]

\* encrypt_attachment(address, attachment, use_asc), given gpg's answer and
\* what the handler does.  After a handler that returns, line 101 reads
\* encrypted_content, which was never bound.
encrypt_attachment(address, attachment, use_asc, res, outcome) ==
    LET filename == attachment[1]
        content == attachment[2]
        mimetype == attachment[3]
        r == encrypt(content, address, res)
    IN  IF mimetype = GPG_ENCRYPTED
        THEN [raised |-> FALSE, value |-> attachment, error |-> NoError,
              called |-> FALSE, hooked |-> FALSE]
        ELSE IF ~r.raised
        THEN [raised |-> FALSE,
              value |-> <<IF use_asc /\ filename # None
                          THEN Append(filename, ".asc") ELSE filename,
                          r.value, GPG_ENCRYPTED>>,
              error |-> NoError, called |-> TRUE, hooked |-> FALSE]
        ELSE IF outcome = "raise"
        THEN [raised |-> TRUE, value |-> attachment,
              error |-> [r.error EXCEPT !.via = "handle_failed_attachment_encryption"],
              called |-> TRUE, hooked |-> TRUE]
        ELSE [raised |-> TRUE, value |-> attachment,
              error |-> [type |-> "UnboundLocalError", addr |-> "", status |-> "",
                         via |-> "encrypt_attachment"],
              called |-> TRUE, hooked |-> TRUE]

\* key_addrs of a message: the items of dict(Address.objects.filter(
\* address__in=msg.to).values_list('address', 'use_asc')), in any order.
KeyAddrs(to) ==
    LET keyed == Range(to) \cap DOMAIN Address
    IN  { [n \in 1..Cardinality(keyed) |-> <<s[n], Address[s[n]]>>] :
            s \in {t \in [1..Cardinality(keyed) -> keyed] : Injective(t)} }

\* The list of line 119 with the bug of lacking its filter.
KeylessOf_unfiltered(to, items) == to

\* [addr for addr in msg.to if addr not in key_addrs]
KeylessOf(to, items) ==
    LET NoKey(addr) == \A n \in DOMAIN items : items[n][1] # addr
    IN  SelectSeq(to, NoKey)

\* list(key_addrs.keys())
KeysOf(items) == [n \in DOMAIN items |-> items[n][1]]

\* Line 131 with the bug of asking new_msg, the newest copy, for the flag.
do_not_encrypt_of_copy(h, msg) == h[Len(h)].do_not_encrypt_this_message

\* getattr(msg, 'do_not_encrypt_this_message', False) at line 131.
do_not_encrypt(h, msg) == h[msg].do_not_encrypt_this_message

\* What send_messages of either mixin returns: lines 190-191 and 198-199
\* call the underlying send_messages and return nothing.
send_messages_result(ret) == None

\* -------------------------------------------------------------------- init

Init ==
    \E b \in Batches, be \in Backends, g \in BOOLEAN :
        /\ backend = be
        /\ USE_GNUPG = g
        /\ heap = b
        /\ orig = b
        /\ origin = [n \in DOMAIN b |-> n]
        /\ email_messages = [n \in DOMAIN b |-> n]
        /\ pc = "send_messages"
        /\ i = 0
        /\ key_addrs = <<>>
        /\ k = 0
        /\ new_msg = 0
        /\ alternatives = <<>>
        /\ attachments = <<>>
        /\ j = 0
        /\ unencrypted_messages = <<>>
        /\ encrypted_messages = <<>>
        /\ to_send = <<>>
        /\ calls = <<>>
        /\ hooks = <<>>
        /\ error = NoError
        /\ transport_called = FALSE
        /\ handed = <<>>
        /\ transport_ret = None
        /\ result = None

\* ----------------------------------------------------------------- actions

Call(kind, idx, text, addr, res) ==
    [kind |-> kind, msg |-> i, idx |-> idx, addr |-> addr, outcome |-> Outcome(text, res)]
Hook(name, err) == [hook |-> name, call |-> Len(calls) + 1, addr |-> err.addr]

\* send_messages, lines 187-189 and 195-197: with USE_GNUPG the batch goes
\* through encrypt_messages or sign_messages, without it straight on.
SendMessages ==
    /\ pc = "send_messages"
    /\ pc' = IF ~USE_GNUPG THEN "super"
             ELSE IF backend = "encrypting" THEN "for_msg" ELSE "sign_msg"
    /\ i' = IF USE_GNUPG THEN 1 ELSE i
    /\ to_send' = IF USE_GNUPG THEN to_send ELSE email_messages
    /\ UNCHANGED <<backend, USE_GNUPG, email_messages, heap, orig, origin, key_addrs,
                   k, new_msg, alternatives, attachments, j, unencrypted_messages,
                   encrypted_messages, calls, hooks, error, transport_called,
                   handed, transport_ret, result>>

\* encrypt_messages, lines 107-126: look the keys up, copy the message for
\* the recipients without a key and once more for those with one.
SplitMessage ==
    /\ pc = "for_msg"
    /\ i <= Len(email_messages)
    /\ \E items \in KeyAddrs(heap[email_messages[i]].to) :
        LET msg == email_messages[i]
            c1 == copy_message(heap, msg)
            unencrypted_msg == c1[2]
            h1 == [c1[1] EXCEPT ![unencrypted_msg].to = KeylessOf(c1[1][msg].to, items)]
            c2 == copy_message(h1, msg)
            h2 == [c2[1] EXCEPT ![c2[2]].to = KeysOf(items)]
        IN  /\ key_addrs' = items
            /\ unencrypted_messages' =
                   IF h1[unencrypted_msg].to # <<>>
                   THEN Append(unencrypted_messages, unencrypted_msg)
                   ELSE unencrypted_messages
            /\ new_msg' = c2[2]
            /\ heap' = h2
            /\ origin' = [n \in DOMAIN h2 |-> IF n \in DOMAIN origin THEN origin[n] ELSE i]
    /\ k' = 1
    /\ pc' = "for_address"
    /\ UNCHANGED <<backend, USE_GNUPG, email_messages, orig, i, alternatives,
                   attachments, j, encrypted_messages, to_send, calls, hooks, error,
                   transport_called, handed, transport_ret, result>>

\* lines 130-133: a message flagged do_not_encrypt_this_message goes to the
\* unencrypted list, once per address.
DoNotEncrypt ==
    /\ pc = "for_address"
    /\ k <= Len(key_addrs)
    /\ do_not_encrypt(heap, email_messages[i])
    /\ unencrypted_messages' = Append(unencrypted_messages, new_msg)
    /\ k' = k + 1
    /\ UNCHANGED <<backend, USE_GNUPG, email_messages, heap, orig, origin, pc, i,
                   key_addrs, new_msg, alternatives, attachments, j,
                   encrypted_messages, to_send, calls, hooks, error,
                   transport_called, handed, transport_ret, result>>

\* lines 135-139: the body.
EncryptBody ==
    /\ pc = "for_address"
    /\ k <= Len(key_addrs)
    /\ ~do_not_encrypt(heap, email_messages[i])
    /\ LET address == key_addrs[k][1]
           body == heap[new_msg].body
       IN  \E res \in GpgEncryptResults(body, address), outcome \in HookOutcomes :
            LET r == encrypt(body, address, res)
                raises == r.raised /\ outcome = "raise"
            IN  /\ calls' = Append(calls, Call("body", 0, body, address, res))
                /\ hooks' = IF r.raised
                            THEN Append(hooks, Hook("handle_failed_message_encryption", r.error))
                            ELSE hooks
                /\ heap' = IF r.raised THEN heap
                           ELSE [heap EXCEPT ![new_msg].body = r.value]
                /\ error' = IF raises
                            THEN [r.error EXCEPT !.via = "handle_failed_message_encryption"]
                            ELSE error
                /\ pc' = IF raises THEN "raised" ELSE "alternatives"
                /\ j' = IF raises THEN j ELSE 1
    /\ alternatives' = <<>>
    /\ UNCHANGED <<backend, USE_GNUPG, email_messages, orig, origin, i, key_addrs, k,
                   new_msg, attachments, unencrypted_messages, encrypted_messages,
                   to_send, transport_called, handed, transport_ret, result>>

\* lines 143-155: one alternative.
EncryptAlternative ==
    /\ pc = "alternatives"
    /\ j <= Len(heap[new_msg].alternatives)
    /\ LET address == key_addrs[k][1]
           alt == heap[new_msg].alternatives[j][1]
           mimetype == heap[new_msg].alternatives[j][2]
       IN  IF mimetype = GPG_ENCRYPTED
           THEN /\ alternatives' = Append(alternatives, <<alt, mimetype>>)
                /\ j' = j + 1
                /\ UNCHANGED <<calls, hooks, error, pc>>
           ELSE \E res \in GpgEncryptResults(alt, address), outcome \in HookOutcomes :
                LET r == encrypt(alt, address, res)
                    raises == r.raised /\ outcome = "raise"
                IN  /\ calls' = Append(calls, Call("alternative", j, alt, address, res))
                    /\ hooks' = IF r.raised
                                THEN Append(hooks, Hook("handle_failed_alternative_encryption", r.error))
                                ELSE hooks
                    /\ alternatives' = IF r.raised THEN alternatives
                                       ELSE Append(alternatives, <<r.value, GPG_ENCRYPTED>>)
                    /\ error' = IF raises
                                THEN [r.error EXCEPT !.via = "handle_failed_alternative_encryption"]
                                ELSE error
                    /\ pc' = IF raises THEN "raised" ELSE pc
                    /\ j' = IF raises THEN j ELSE j + 1
    /\ UNCHANGED <<backend, USE_GNUPG, email_messages, heap, orig, origin, i, key_addrs,
                   k, new_msg, attachments, unencrypted_messages, encrypted_messages,
                   to_send, transport_called, handed, transport_ret, result>>

\* line 157: the alternatives are replaced by the list just built.
ReplaceAlternatives ==
    /\ pc = "alternatives"
    /\ j > Len(heap[new_msg].alternatives)
    /\ heap' = [heap EXCEPT ![new_msg].alternatives = alternatives]
    /\ alternatives' = <<>>
    /\ attachments' = <<>>
    /\ j' = 1
    /\ pc' = "attachments"
    /\ UNCHANGED <<backend, USE_GNUPG, email_messages, orig, origin, i, key_addrs, k,
                   new_msg, unencrypted_messages, encrypted_messages, to_send, calls,
                   hooks, error, transport_called, handed, transport_ret, result>>

\* lines 162-164: one attachment, through encrypt_attachment.
EncryptAttachment ==
    /\ pc = "attachments"
    /\ j <= Len(heap[new_msg].attachments)
    /\ LET address == key_addrs[k][1]
           use_asc == key_addrs[k][2]
           attachment == heap[new_msg].attachments[j]
       IN  \E res \in GpgEncryptResults(attachment[2], address), outcome \in HookOutcomes :
            LET r == encrypt_attachment(address, attachment, use_asc, res, outcome)
            IN  /\ calls' = IF r.called
                            THEN Append(calls, Call("attachment", j, attachment[2], address, res))
                            ELSE calls
                /\ hooks' = IF r.hooked
                            THEN Append(hooks, Hook("handle_failed_attachment_encryption",
                                                    encrypt(attachment[2], address, res).error))
                            ELSE hooks
                /\ attachments' = IF r.raised THEN attachments
                                  ELSE Append(attachments, r.value)
                /\ error' = IF r.raised THEN r.error ELSE error
                /\ pc' = IF r.raised THEN "raised" ELSE pc
                /\ j' = IF r.raised THEN j ELSE j + 1
    /\ UNCHANGED <<backend, USE_GNUPG, email_messages, heap, orig, origin, i, key_addrs,
                   k, new_msg, alternatives, unencrypted_messages, encrypted_messages,
                   to_send, transport_called, handed, transport_ret, result>>

\* lines 165-167: the attachments are replaced and the message is appended
\* to the encrypted list, at the end of every pass of the address loop.
AppendEncrypted ==
    /\ pc = "attachments"
    /\ j > Len(heap[new_msg].attachments)
    /\ heap' = [heap EXCEPT ![new_msg].attachments = attachments]
    /\ encrypted_messages' = Append(encrypted_messages, new_msg)
    /\ attachments' = <<>>
    /\ j' = 0
    /\ k' = k + 1
    /\ pc' = "for_address"
    /\ UNCHANGED <<backend, USE_GNUPG, email_messages, orig, origin, i, key_addrs,
                   new_msg, alternatives, unencrypted_messages, to_send, calls, hooks,
                   error, transport_called, handed, transport_ret, result>>

\* the address loop is exhausted: on to the next message of line 107.
NextMessage ==
    /\ pc = "for_address"
    /\ k > Len(key_addrs)
    /\ i' = i + 1
    /\ pc' = "for_msg"
    /\ UNCHANGED <<backend, USE_GNUPG, email_messages, heap, orig, origin, key_addrs, k,
                   new_msg, alternatives, attachments, j, unencrypted_messages,
                   encrypted_messages, to_send, calls, hooks, error, transport_called,
                   handed, transport_ret, result>>

\* line 169, and the assignment of line 189.
ReturnEncrypted ==
    /\ pc = "for_msg"
    /\ i > Len(email_messages)
    /\ to_send' = unencrypted_messages \o encrypted_messages
    /\ pc' = "super"
    /\ UNCHANGED <<backend, USE_GNUPG, email_messages, heap, orig, origin, i, key_addrs,
                   k, new_msg, alternatives, attachments, j, unencrypted_messages,
                   encrypted_messages, calls, hooks, error, transport_called, handed,
                   transport_ret, result>>

\* sign_messages, lines 175-177: the body of the caller's own message is
\* replaced; nothing catches what sign raises.
SignMessage ==
    /\ pc = "sign_msg"
    /\ i <= Len(email_messages)
    /\ \E status \in GpgSignStatuses :
        LET msg == email_messages[i]
            r == sign(heap[msg].body, status)
        IN  /\ heap' = IF r.raised THEN heap ELSE [heap EXCEPT ![msg].body = r.value]
            /\ error' = r.error
            /\ pc' = IF r.raised THEN "raised" ELSE pc
            /\ i' = IF r.raised THEN i ELSE i + 1
    /\ UNCHANGED <<backend, USE_GNUPG, email_messages, orig, origin, key_addrs, k,
                   new_msg, alternatives, attachments, j, unencrypted_messages,
                   encrypted_messages, to_send, calls, hooks, transport_called, handed,
                   transport_ret, result>>

\* line 183, and the assignment of line 197.
ReturnSigned ==
    /\ pc = "sign_msg"
    /\ i > Len(email_messages)
    /\ to_send' = email_messages
    /\ pc' = "super"
    /\ UNCHANGED <<backend, USE_GNUPG, email_messages, heap, orig, origin, i, key_addrs,
                   k, new_msg, alternatives, attachments, j, unencrypted_messages,
                   encrypted_messages, calls, hooks, error, transport_called, handed,
                   transport_ret, result>>

\* lines 190-191 and 198-199: the underlying send_messages gets the batch;
\* what it raises goes to the caller.
SuperSendMessages ==
    /\ pc = "super"
    /\ \E t \in TransportOutcomes(to_send) :
        /\ transport_ret' = IF t.raises THEN None ELSE <<t.sent>>
        /\ result' = IF t.raises THEN result ELSE send_messages_result(<<t.sent>>)
        /\ error' = IF t.raises
                    THEN [type |-> "SMTPException", addr |-> "", status |-> "",
                          via |-> "transport"]
                    ELSE error
        /\ pc' = IF t.raises THEN "raised" ELSE "done"
    /\ transport_called' = TRUE
    /\ handed' = to_send
    /\ UNCHANGED <<backend, USE_GNUPG, email_messages, heap, orig, origin, i, key_addrs,
                   k, new_msg, alternatives, attachments, j, unencrypted_messages,
                   encrypted_messages, to_send, calls, hooks>>

Next ==
    \/ SendMessages
    \/ SplitMessage
    \/ DoNotEncrypt
    \/ EncryptBody
    \/ EncryptAlternative
    \/ ReplaceAlternatives
    \/ EncryptAttachment
    \/ AppendEncrypted
    \/ NextMessage
    \/ ReturnEncrypted
    \/ SignMessage
    \/ ReturnSigned
    \/ SuperSendMessages

Spec == Init /\ [][Next]_vars

\* ------------------------------------------------------------------ claims

Inputs == DOMAIN orig
Keyed(to) == Range(to) \cap DOMAIN Address
HasNoKey(addr) == addr \notin DOMAIN Address
KeylessSeq(to) == SelectSeq(to, HasNoKey)
AllKeyed(to) == Range(to) \subseteq DOMAIN Address
Mixed(to) == Keyed(to) # {} /\ Keyed(to) # Range(to)

\* encrypt_messages has returned its batch (to_send).
Returned ==
    /\ backend = "encrypting"
    /\ USE_GNUPG
    /\ pc \in {"super", "done"} \/ error.via = "transport"

\* The places of the two output lists that hold a copy of input n.
UnencCopies(n) ==
    {p \in DOMAIN unencrypted_messages : origin[unencrypted_messages[p]] = n}
EncCopies(n) ==
    {p \in DOMAIN encrypted_messages : origin[encrypted_messages[p]] = n}

SameContent(m, o) ==
    /\ m.body = o.body
    /\ m.alternatives = o.alternatives
    /\ m.attachments = o.attachments
\* Nothing of m is in the clear: the body is ciphertext (or the empty text),
\* every alternative and attachment carries the encrypted marker.
WhollyEncrypted(m) ==
    /\ m.body.layers # <<>> \/ m.body = EmptyText
    /\ \A x \in DOMAIN m.alternatives : m.alternatives[x][2] = GPG_ENCRYPTED
    /\ \A x \in DOMAIN m.attachments : m.attachments[x][3] = GPG_ENCRYPTED
NoMarker(o) ==
    /\ \A x \in DOMAIN o.alternatives : o.alternatives[x][2] # GPG_ENCRYPTED
    /\ \A x \in DOMAIN o.attachments : o.attachments[x][3] # GPG_ENCRYPTED

CallsOf(n, kind, idx) ==
    {c \in DOMAIN calls : calls[c].msg = n /\ calls[c].kind = kind /\ calls[c].idx = idx}
IsBodyCallOf(n, c) == c.msg = n /\ c.kind = "body"
\* The addresses of input n in the order the address loop took them.
Order(n) ==
    LET Mine(c) == IsBodyCallOf(n, c)
        mine == SelectSeq(calls, Mine)
    IN  [x \in DOMAIN mine |-> mine[x].addr]
AllCipher(n) == \A c \in DOMAIN calls : calls[c].msg = n => calls[c].outcome = "cipher"

RECURSIVE Nested(_, _)
Nested(text, addrs) ==
    IF addrs = <<>> THEN text ELSE Nested(Ciphertext(text, Head(addrs)), Tail(addrs))

\* C1: when encrypt_messages has returned, every input whose "to" addresses
\* all have a key has no copy in the unencrypted output and exactly one in
\* the encrypted output, addressed to the full keyed set.  Stated for the
\* inputs that are not flagged do_not_encrypt_this_message, whose copies
\* line 132 sends to the unencrypted output.
C1_OneEncryptedCopy ==
    Returned =>
        \A n \in Inputs :
            (AllKeyed(orig[n].to) /\ ~orig[n].do_not_encrypt_this_message) =>
                /\ UnencCopies(n) = {}
                /\ Cardinality(EncCopies(n)) = 1
                /\ \A p \in EncCopies(n) :
                       Range(heap[encrypted_messages[p]].to) = Keyed(orig[n].to)

\* The split of input n into a keyless copy in the unencrypted output and a
\* keyed copy in the encrypted output, covering "to" exactly.
SplitInTwo(n) ==
    \E p \in UnencCopies(n), q \in EncCopies(n) :
        LET u == heap[unencrypted_messages[p]].to
            e == heap[encrypted_messages[q]].to
        IN  /\ u = KeylessSeq(orig[n].to)
            /\ Range(e) = Keyed(orig[n].to)
            /\ Injective(e)
            /\ Range(u) \cup Range(e) = Range(orig[n].to)
            /\ Range(u) \cap Range(e) = {}
            /\ Len(u) + Len(e) = Len(orig[n].to)

\* C2 as stated: when encrypt_messages has returned, every input whose "to"
\* mixes keyless and keyed addresses has an unencrypted copy to the keyless
\* addresses in their order and an encrypted copy to the keyed ones, the
\* two "to" lists together being the original one.
C2_MixedSplit ==
    Returned => \A n \in Inputs : Mixed(orig[n].to) => SplitInTwo(n)

\* C2 amended: the same, for the inputs that are not flagged
\* do_not_encrypt_this_message.
C2_MixedSplitUnflagged ==
    Returned =>
        \A n \in Inputs :
            (Mixed(orig[n].to) /\ ~orig[n].do_not_encrypt_this_message) => SplitInTwo(n)

C2_Witness ==
    /\ Returned
    /\ \E n \in Inputs :
        /\ Mixed(orig[n].to)
        /\ ~orig[n].do_not_encrypt_this_message
        /\ Cardinality(Range(orig[n].to) \ DOMAIN Address) >= 2
        /\ SplitInTwo(n)

\* C3: an input flagged do_not_encrypt_this_message with a keyed recipient
\* never reaches the encrypted output, no gpg.encrypt call is made for it,
\* none of its copies is transformed, and once encrypt_messages has
\* returned its keyed copy is in the unencrypted output.
C3_DoNotEncrypt ==
    (backend = "encrypting" /\ USE_GNUPG) =>
        \A n \in Inputs :
            (orig[n].do_not_encrypt_this_message /\ Keyed(orig[n].to) # {}) =>
                /\ EncCopies(n) = {}
                /\ \A c \in DOMAIN calls : calls[c].msg # n
                /\ \A id \in DOMAIN heap : origin[id] = n => SameContent(heap[id], orig[n])
                /\ Returned =>
                       \E p \in UnencCopies(n) :
                           Range(heap[unencrypted_messages[p]].to) = Keyed(orig[n].to)

C3_Witness ==
    /\ Returned
    /\ \E n \in Inputs :
        /\ orig[n].do_not_encrypt_this_message
        /\ Keyed(orig[n].to) # {}
        /\ orig[n].alternatives # <<>>
        /\ \E p \in UnencCopies(n) :
               Range(heap[unencrypted_messages[p]].to) = Keyed(orig[n].to)

\* C4: every failed gpg.encrypt call for a body has exactly one handler
\* call, of handle_failed_message_encryption, with an error naming the
\* address of that call; and once encrypt_messages has returned, the keyed
\* copy of the message is in the returned batch.
C4_BodyFailureHandled ==
    \A c \in DOMAIN calls :
        (calls[c].kind = "body" /\ calls[c].outcome = "failed") =>
            /\ Cardinality({h \in DOMAIN hooks : hooks[h].call = c}) = 1
            /\ \A h \in DOMAIN hooks :
                   hooks[h].call = c =>
                       /\ hooks[h].hook = "handle_failed_message_encryption"
                       /\ hooks[h].addr = calls[c].addr
            /\ Returned =>
                   \E p \in DOMAIN to_send :
                       /\ origin[to_send[p]] = calls[c].msg
                       /\ Range(heap[to_send[p]].to) = Keyed(orig[calls[c].msg].to)

C4_Witness ==
    /\ Returned
    /\ \E c \in DOMAIN calls :
        /\ calls[c].kind = "body"
        /\ calls[c].outcome = "failed"
        /\ \E h \in DOMAIN hooks : hooks[h].call = c
        /\ EncCopies(calls[c].msg) # {}

\* C5: when encrypt_messages has returned, every returned copy of an input
\* without encrypted marker is wholly cleartext (as the input) or wholly
\* encrypted.
C5_OnePolicy ==
    Returned =>
        \A p \in DOMAIN to_send :
            NoMarker(orig[origin[to_send[p]]]) =>
                \/ SameContent(heap[to_send[p]], orig[origin[to_send[p]]])
                \/ WhollyEncrypted(heap[to_send[p]])

\* C6: the caller of send_messages gets what the underlying send_messages
\* returned, and an error of the underlying send_messages ends the call.
C6_TransportResult ==
    /\ pc = "done" => result = transport_ret
    /\ error.via = "transport" => pc = "raised"

\* C7: under the encrypting wrapper the caller's messages keep their body,
\* alternatives and attachments, and so does every copy in the unencrypted
\* output.
C7_NoSharedState ==
    backend = "encrypting" =>
        \A n \in Inputs :
            /\ SameContent(heap[n], orig[n])
            /\ \A p \in UnencCopies(n) :
                   SameContent(heap[unencrypted_messages[p]], orig[n])

C7_Witness ==
    /\ Returned
    /\ \E n \in Inputs :
        /\ UnencCopies(n) # {}
        /\ \E q \in EncCopies(n) :
            /\ heap[encrypted_messages[q]].body # orig[n].body
            /\ heap[encrypted_messages[q]].alternatives # orig[n].alternatives
            /\ heap[encrypted_messages[q]].attachments # orig[n].attachments

\* The case of C8: an unflagged input with two or more keyed recipients,
\* every gpg.encrypt call for it answered with ciphertext, and
\* encrypt_messages returned.
C8_Case(n) ==
    /\ Returned
    /\ ~orig[n].do_not_encrypt_this_message
    /\ Cardinality(Keyed(orig[n].to)) >= 2
    /\ AllCipher(n)

C9_GoesOnAfterHandledFailure ==
    (backend = "encrypting" /\ pc = "raised" /\ error.via # "transport") =>
        error.via \in {"handle_failed_message_encryption",
                       "handle_failed_alternative_encryption",
                       "handle_failed_attachment_encryption"}

\* C10: under the signing wrapper a sign that fails raises
\* SigningFailedError and the transport is not called; when sign_messages
\* has returned every body is the signed form of the original.
C10_SigningFailure ==
    (backend = "signing" /\ USE_GNUPG) =>
        /\ (pc = "raised" /\ error.via = "sign") =>
               (error.type = "SigningFailedError" /\ ~transport_called)
        /\ (pc \in {"super", "done"} \/ error.via = "transport") =>
               \A n \in Inputs : heap[n].body = Signature(orig[n].body)

====
